---- MODULE Spec2Model ----
(***************************************************************************)
(* Model of psycopg3/utils/queries.py: the placeholder tokenizer           *)
(* (_split_query), the query rewriter (_query2pg, memoized by lru_cache),  *)
(* the parameter reconciler (_validate_and_reorder_params) and the         *)
(* PostgresQuery session object (convert / dump).                          *)
(*                                                                         *)
(* Representation.  A byte string is a sequence of one-character strings.  *)
(* An Optional value is a sequence of length 0 (None) or 1 (the value).    *)
(* A QueryPart item (Union[int, str]) is a record tagged with its type.    *)
(***************************************************************************)
EXTENDS Integers, Sequences, FiniteSets, TLC

VARIABLES
    query, params, types, formats, order, parts,  \* the PostgresQuery attributes
    peer,                                         \* a second PostgresQuery object
    cache,                                        \* the lru_cache of _query2pg
    last,                                         \* the latest call and its outcome
    input                                         \* the arguments of a single call

vars == <<query, params, types, formats, order, parts, peer, cache, last, input>>

----------------------------------------------------------------------------
(* Python values *)

None == <<>>
Some(x) == <<x>>
IsNone(o) == o = <<>>
Get(o) == o[1]

TEXT_OID == 25
UNKNOWN_OID == 705

\* pq.Format: Format(False) is TEXT, Format(True) is BINARY
FormatOf(isBinary) == IF isBinary THEN "BINARY" ELSE "TEXT"

\* QueryPart(pre, item, format); item is an int (anonymous) or a str (named)
IntItem(i) == [type |-> "int", i |-> i, s |-> <<>>]
StrItem(s) == [type |-> "str", i |-> 0, s |-> s]
QueryPart(pre, item, format) == [pre |-> pre, item |-> item, format |-> format]

\* the outcome of a call: a returned value or a raised exception
Return(v) == [exc |-> "", msg |-> "", value |-> v]
Raise(e, m) == [exc |-> e, msg |-> m, value |-> <<>>]
Raised(r) == r.exc # ""

----------------------------------------------------------------------------
(* str.encode / bytes.decode for the codecs of the model.  ASCII characters  *)
(* are one byte, the same in both codecs; "é" is the bytes C3 A9 in utf8    *)
(* and the byte E9 in latin1.                                               *)

HighBytes == {"C3", "A9", "E9"}

EncodeChar(c, encoding) ==
    IF c # "é" THEN <<c>>
    ELSE IF encoding = "utf8" THEN <<"C3", "A9">> ELSE <<"E9">>

RECURSIVE Encode(_, _)
\* text.encode(encoding)
Encode(text, encoding) ==
    IF text = <<>> THEN <<>>
    ELSE EncodeChar(text[1], encoding) \o Encode(Tail(text), encoding)

RECURSIVE Decode(_, _)
\* bs.decode(encoding): the text, or UnicodeDecodeError
Decode(bs, encoding) ==
    IF bs = <<>> THEN Return(<<>>)
    ELSE IF bs[1] \notin HighBytes
    THEN LET r == Decode(Tail(bs), encoding)
         IN  IF Raised(r) THEN r ELSE Return(<<bs[1]>> \o r.value)
    ELSE IF encoding = "latin1"
    THEN LET r == Decode(Tail(bs), encoding)
             c == IF bs[1] = "E9" THEN "é" ELSE IF bs[1] = "C3" THEN "Ã" ELSE "©"
         IN  IF Raised(r) THEN r ELSE Return(<<c>> \o r.value)
    ELSE IF Len(bs) >= 2 /\ bs[1] = "C3" /\ bs[2] = "A9"
    THEN LET r == Decode(SubSeq(bs, 3, Len(bs)), encoding)
         IN  IF Raised(r) THEN r ELSE Return(<<"é">> \o r.value)
    ELSE Raise("UnicodeDecodeError", "invalid byte")

----------------------------------------------------------------------------
(* _re_placeholder and its finditer *)

NoMatch == [found |-> FALSE, start |-> 0, end |-> 0, group1 |-> None]

RECURSIVE IndexOf(_, _, _)
\* the least j >= from with q[j] = c, or 0 when there is none
IndexOf(q, c, from) ==
    IF from > Len(q) THEN 0
    ELSE IF q[from] = c THEN from
    ELSE IndexOf(q, c, from + 1)

\* `.` of the pattern: any byte but a newline (the pattern has no DOTALL flag)
Dot(q, j) == j <= Len(q) /\ q[j] # "\n"

\* _re_placeholder matched at position p (1-based); end is the last position
MatchAt(q, p) ==
    IF q[p] # "%" THEN NoMatch
    ELSE LET close == IF p + 1 <= Len(q) /\ q[p + 1] = "("
                      THEN IndexOf(q, ")", p + 2) ELSE 0
         IN  IF close > p + 2 /\ Dot(q, close + 1)
             THEN [found |-> TRUE, start |-> p, end |-> close + 1,
                   group1 |-> Some(SubSeq(q, p + 2, close - 1))]
             ELSE IF Dot(q, p + 1)
             THEN [found |-> TRUE, start |-> p, end |-> p + 1, group1 |-> None]
             ELSE NoMatch

RECURSIVE FindIter(_, _)
\* the non-overlapping matches of _re_placeholder in q[pos..], left to right
FindIter(q, pos) ==
    IF pos > Len(q) THEN <<>>
    ELSE LET m == MatchAt(q, pos)
         IN  IF m.found THEN <<m>> \o FindIter(q, m.end + 1)
             ELSE FindIter(q, pos + 1)

Group0(q, m) == SubSeq(q, m.start, m.end)

----------------------------------------------------------------------------
(* _split_query *)

RECURSIVE SplitPairs(_, _, _)
\* the first loop: pairs (fragment, match), the last match None
SplitPairs(q, ms, cur) ==
    IF ms = <<>> THEN << [pre |-> SubSeq(q, cur, Len(q)), m |-> None] >>
    ELSE << [pre |-> SubSeq(q, cur, ms[1].start - 1), m |-> Some(ms[1])] >>
         \o SplitPairs(q, Tail(ms), ms[1].end + 1)

\* the merge of line 249 without the unescaping: both bytes of "%%" are kept
UnescapedKept(pre, pre1) == pre \o <<"%", "%">> \o pre1

\* line 249: pre + b"%" + pre1
Unescaped(pre, pre1) == pre \o <<"%">> \o pre1

\* the parser without the check of lines 274-286
MixedIgnored(phtype, item) == FALSE

\* lines 274-280: phtype is not None and is not type(item)
Mixed(phtype, item) == ~IsNone(phtype) /\ Get(phtype) # item.type

\* the merge of lines 245-251 joining the two fragments and losing the "%"
MergePercentLost(ps, i) ==
    [k \in 1..(Len(ps) - 1) |->
        IF k <= i THEN ps[k]
        ELSE IF k = i + 1
             THEN [pre |-> ps[i + 1].pre \o ps[i + 2].pre, m |-> ps[i + 2].m]
             ELSE ps[k + 1]]

\* parts[i + 1] = (pre + b"%" + pre1, m1); del parts[i]   (i is 0-based)
MergePercent(ps, i) ==
    [k \in 1..(Len(ps) - 1) |->
        IF k <= i THEN ps[k]
        ELSE IF k = i + 1
             THEN [pre |-> Unescaped(ps[i + 1].pre, ps[i + 2].pre),
                   m |-> ps[i + 2].m]
             ELSE ps[k + 1]]

RECURSIVE FirstWord(_)
\* bs.split()[0] for bs that starts with a non-blank byte
FirstWord(bs) ==
    IF bs = <<>> \/ bs[1] \in {" ", "\n"} THEN <<>>
    ELSE <<bs[1]>> \o FirstWord(Tail(bs))

\* an error whose message decodes a fragment of the query: the decoding may
\* itself raise, and then that is the exception the caller sees
RaiseDecoding(fragment, encoding, e, m) ==
    LET d == Decode(fragment, encoding) IN IF Raised(d) THEN d ELSE Raise(e, m)

RECURSIVE SplitLoop(_, _, _, _, _, _)
\* the second loop: drop the "%%", validate; phtype is None or the item type
SplitLoop(q, encoding, ps, i, phtype, rv) ==
    IF ~(i < Len(ps)) THEN Return(rv)
    ELSE LET pre == ps[i + 1].pre
             mo == ps[i + 1].m
         IN
         IF IsNone(mo) THEN Return(Append(rv, QueryPart(pre, IntItem(0), FormatOf(FALSE))))
         ELSE LET m == Get(mo)
                  ph == Group0(q, m)
                  lastc == ph[Len(ph)]
                  name == IF IsNone(m.group1) THEN Return(<<>>)
                          ELSE Decode(Get(m.group1), encoding)
                  item == IF IsNone(m.group1) THEN IntItem(i)
                          ELSE StrItem(name.value)
              IN
              IF ph = <<"%", "%">>
              THEN SplitLoop(q, encoding, MergePercent(ps, i), i, phtype, rv)
              ELSE IF ph = <<"%", "(">>
              THEN RaiseDecoding(FirstWord(SubSeq(q, m.start, Len(q))), encoding,
                                 "ProgrammingError", "incomplete placeholder")
              ELSE IF ph = <<"%", " ">>
              THEN Raise("ProgrammingError", "incomplete placeholder: '%'")
              ELSE IF lastc \notin {"b", "s"}
              THEN RaiseDecoding(ph, encoding, "ProgrammingError",
                                 "only '%s' and '%b' placeholders allowed")
              ELSE IF Raised(name) THEN name
              ELSE IF Mixed(phtype, item)
              THEN Raise("ProgrammingError", "positional and named placeholders cannot be mixed")
              ELSE SplitLoop(q, encoding, ps, i + 1, Some(item.type),
                             Append(rv, QueryPart(pre, item, FormatOf(lastc = "b"))))

_split_query(q, encoding) ==
    SplitLoop(q, encoding, SplitPairs(q, FindIter(q, 1), 1), 0, None, <<>>)

----------------------------------------------------------------------------
(* _query2pg (the function under the lru_cache) *)

Digit(d) == <<"0", "1", "2", "3", "4", "5", "6", "7", "8", "9">>[d + 1]

RECURSIVE Decimal(_)
\* b"%d" % n for n >= 0
Decimal(n) == IF n < 10 THEN <<Digit(n)>> ELSE Decimal(n \div 10) \o <<Digit(n % 10)>>

\* b"$%d" % n
Placeholder(n) == <<"$">> \o Decimal(n)

\* query objects: bytes, str, or something else (neither)
Bytes(text) == [type |-> "bytes", text |-> text]
Str(text) == [type |-> "str", text |-> text]
Other == [type |-> "other", text |-> <<>>]

ParsedQuery(q, f, o, p) == [query |-> q, formats |-> f, order |-> o, parts |-> p]

\* line 136: b"$%d" % (part.item + 1)
AnonPlaceholder(item) == Placeholder(item.i + 1)

\* line 146 numbering the names from 0
NewPlaceholderFromZero(seen) == Placeholder(Len(seen))

\* line 146: b"$%d" % (len(seen) + 1)
NewPlaceholder(seen) == Placeholder(Len(seen) + 1)

\* the rewriter without the check of line 152
FormatDiffersIgnored(entry, format) == FALSE

\* line 152: seen[part.item][1] != part.format
FormatDiffers(entry, format) == entry.format # format

RECURSIVE AnonLoop(_, _, _, _)
\* lines 133-137: one chunk pair and one format per non-terminal part
AnonLoop(ps, k, chunks, fmts) ==
    IF k > Len(ps) - 1 THEN [chunks |-> chunks, formats |-> fmts]
    ELSE AnonLoop(ps, k + 1,
                  chunks \o ps[k].pre \o AnonPlaceholder(ps[k].item),
                  Append(fmts, ps[k].format))

\* the `seen` dict is a sequence of [name, ph, format] in insertion order
SeenIndex(seen, name) ==
    IF \E j \in 1..Len(seen) : seen[j].name = name
    THEN CHOOSE j \in 1..Len(seen) : seen[j].name = name
    ELSE 0

RECURSIVE NamedLoop(_, _, _, _, _, _)
\* lines 142-157
NamedLoop(ps, k, seen, ord, chunks, fmts) ==
    IF k > Len(ps) - 1
    THEN Return([chunks |-> chunks, formats |-> fmts, order |-> ord])
    ELSE LET part == ps[k]
             j == SeenIndex(seen, part.item.s)
         IN  IF j = 0
             THEN LET ph == NewPlaceholder(seen)
                  IN  NamedLoop(ps, k + 1,
                                Append(seen, [name |-> part.item.s, ph |-> ph,
                                              format |-> part.format]),
                                Append(ord, part.item.s),
                                chunks \o part.pre \o ph,
                                Append(fmts, part.format))
             ELSE IF FormatDiffers(seen[j], part.format)
             THEN Raise("ProgrammingError", "placeholder cannot have different formats")
             ELSE NamedLoop(ps, k + 1, seen, ord,
                            chunks \o part.pre \o seen[j].ph, fmts)

\* lines 132-137 and 160-162: the result for anonymous placeholders
AnonResult(ps, a) ==
    Return(ParsedQuery(a.chunks \o ps[Len(ps)].pre, a.formats, None, ps))

\* lines 139-162: the result for named placeholders, n the outcome of the loop
NamedResult(ps, n) ==
    IF Raised(n) THEN n
    ELSE Return(ParsedQuery(n.value.chunks \o ps[Len(ps)].pre, n.value.formats,
                            Some(n.value.order), ps))

\* lines 128-162, from the parts _split_query returned
Rewrite(ps) ==
    IF ps[1].item.type = "int"
    THEN AnonResult(ps, AnonLoop(ps, 1, <<>>, <<>>))
    ELSE NamedResult(ps, NamedLoop(ps, 1, <<>>, <<>>, <<>>, <<>>))

\* line 127 on: sp is the outcome of _split_query
RewriteSplit(sp) == IF Raised(sp) THEN sp ELSE Rewrite(sp.value)

\* _query2pg.__wrapped__: the computation, without the cache
Query2pgUncached(q, encoding) ==
    IF q.type \notin {"bytes", "str"}
    THEN Raise("TypeError", "the query should be str or bytes")
    ELSE RewriteSplit(_split_query(IF q.type = "str" THEN Encode(q.text, encoding)
                                   ELSE q.text, encoding))

----------------------------------------------------------------------------
(* lru_cache *)

\* functools.lru_cache() default maxsize
CacheMaxSize == 128

CacheKey(q, encoding) == <<q, encoding>>

\* the cache is a sequence of [key, value], least recently used first
CacheIndex(c, key) ==
    IF \E j \in 1..Len(c) : c[j].key = key
    THEN CHOOSE j \in 1..Len(c) : c[j].key = key
    ELSE 0

Without(c, j) == SubSeq(c, 1, j - 1) \o SubSeq(c, j + 1, Len(c))

\* a miss that stores an entry for the key whatever the outcome
CacheMissStored(c, key, r) ==
    [result |-> r, cache |-> Append(c, [key |-> key, value |-> r.value])]

\* a miss: r is the outcome of the computation; an exception propagates and
\* stores nothing, a result is stored, evicting the least recently used entry
\* of a full cache
CacheMiss(c, key, r) ==
    IF Raised(r) THEN [result |-> r, cache |-> c]
    ELSE [result |-> r,
          cache |-> Append(IF Len(c) >= CacheMaxSize THEN Tail(c) ELSE c,
                           [key |-> key, value |-> r.value])]

\* a hit on entry j answered with the value of the oldest entry
CacheHitOldest(c, j) ==
    [result |-> Return(c[1].value), cache |-> Append(Without(c, j), c[j])]

\* a hit on entry j: the stored value, the entry becoming the most recent
CacheHit(c, j) ==
    [result |-> Return(c[j].value), cache |-> Append(Without(c, j), c[j])]

\* _query2pg(query, encoding) through the cache c: [result, cache]
_query2pg(c, q, encoding) ==
    IF CacheIndex(c, CacheKey(q, encoding)) # 0
    THEN CacheHit(c, CacheIndex(c, CacheKey(q, encoding)))
    ELSE CacheMiss(c, CacheKey(q, encoding), Query2pgUncached(q, encoding))

----------------------------------------------------------------------------
(* _validate_and_reorder_params *)

\* parameter objects: None, a sequence (list/tuple), a mapping (dict), or
\* anything else (a str, an int, ...).  A mapping is a function on its keys.
NoVars == [kind |-> "none", seq |-> <<>>, map |-> <<>>]
SeqVars(s) == [kind |-> "seq", seq |-> s, map |-> <<>>]
MapVars(m) == [kind |-> "map", seq |-> <<>>, map |-> m]
OtherVars == [kind |-> "other", seq |-> <<>>, map |-> <<>>]

\* bool(vars)
Truthy(v) == IF v.kind = "seq" THEN v.seq # <<>> ELSE DOMAIN v.map # {}

\* `order or ()`
OrEmpty(o) == IF IsNone(o) THEN <<>> ELSE Get(o)

\* the characters of the model in code point order, for sorted()
CodePoints == <<"\n", " ", "$", "%", "(", ")", "0", "1", "2", "3", "4", "5", "6",
                "7", "8", "9", "a", "b", "c", "s", "x", "©", "Ã", "é">>
Rank(c) == CHOOSE k \in 1..Len(CodePoints) : CodePoints[k] = c

RECURSIVE NameLess(_, _)
NameLess(x, y) ==
    IF x = <<>> THEN y # <<>>
    ELSE IF y = <<>> THEN FALSE
    ELSE IF x[1] # y[1] THEN Rank(x[1]) < Rank(y[1])
    ELSE NameLess(Tail(x), Tail(y))

\* the missing names of line 191 listed as they come, without sorted()
SortedNot(names) == names

RECURSIVE Sorted(_)
\* sorted(names): ascending, duplicates kept
Sorted(names) ==
    IF names = <<>> THEN <<>>
    ELSE LET k == CHOOSE k \in 1..Len(names) :
                     \A j \in 1..Len(names) : ~NameLess(names[j], names[k])
         IN  <<names[k]>> \o Sorted(Without(names, k))

RECURSIVE Filter(_, _)
\* [i for i in names if i not in keys]
Filter(names, keys) ==
    IF names = <<>> THEN <<>>
    ELSE (IF names[1] \in keys THEN <<>> ELSE <<names[1]>>) \o Filter(Tail(names), keys)

\* lines 188-194: [vars[item] for item in names], or the missing-key error
Lookup(m, names) ==
    IF \E k \in 1..Len(names) : names[k] \notin DOMAIN m
    THEN [exc |-> "ProgrammingError", msg |-> "query parameter missing",
          value |-> Sorted(Filter(names, DOMAIN m))]
    ELSE Return([k \in 1..Len(names) |-> m[names[k]]])

\* the count check of line 172 catching only a sequence that is too short
CountMismatchShort(s, ps) == Len(s) < Len(ps) - 1

\* line 172: len(vars) != len(parts) - 1
CountMismatch(s, ps) == Len(s) # Len(ps) - 1

\* the reconciler without the check of line 177
SeqForNamedIgnored(v, ps) == FALSE

\* line 177: vars and not isinstance(parts[0].item, int)
SeqForNamed(v, ps) == Truthy(v) /\ ps[1].item.type # "int"

\* line 184: vars and len(parts) > 1 and not isinstance(parts[0][1], str)
MapForAnon(v, ps) == Truthy(v) /\ Len(ps) > 1 /\ ps[1].item.type # "str"

_validate_and_reorder_params(ps, v, ord) ==
    IF v.kind = "seq"
    THEN IF CountMismatch(v.seq, ps)
         THEN Raise("ProgrammingError", "placeholders count mismatch")
         ELSE IF SeqForNamed(v, ps)
         THEN Raise("TypeError", "named placeholders require a mapping of parameters")
         ELSE Return(v.seq)
    ELSE IF v.kind = "map"
    THEN IF MapForAnon(v, ps)
         THEN Raise("TypeError", "positional placeholders (%s) require a sequence of parameters")
         ELSE Lookup(v.map, OrEmpty(ord))
    ELSE Raise("TypeError", "query parameters should be a sequence or a mapping")

----------------------------------------------------------------------------
(* The Transformer's dumpers (outside this file).  A parameter value is     *)
(* "None" or a value of one of three Python types: int ("i1", "i2"), str    *)
(* ("s1") and a type no dumper is registered for ("obj").                   *)

PyNone == "None"

TypeOf(v) == IF v \in {"i1", "i2"} THEN "int" ELSE IF v = "s1" THEN "str" ELSE "object"

\* self._tx.get_dumper(param, format): the dumper, or an exception when the
\* type cannot be adapted
get_dumper(param, format) ==
    IF TypeOf(param) = "object"
    THEN Raise("ProgrammingError", "cannot adapt type")
    ELSE Return([oid |-> IF TypeOf(param) = "str" THEN TEXT_OID
                         ELSE IF format = "TEXT" THEN 1700 ELSE 20,
                 format |-> format])

\* dumper.dump(param): the bytes sent for the value in the dumper's format
DumperDump(dumper, param) == <<param, dumper.format>>

----------------------------------------------------------------------------
(* PostgresQuery *)

Session(q, p, t, f, o, ps) ==
    [query |-> q, params |-> p, types |-> t, formats |-> f, order |-> o, parts |-> ps]

\* __init__: _parts is only annotated, the attribute does not exist yet
NewSession == Session(Bytes(<<>>), None, None, None, None, None)

\* the state of the loops of dump: self.params and self.types so far, and the
\* exception that ended the loop, if any
LoopState(ps, ts, exc, msg) == [params |-> ps, types |-> ts, exc |-> exc, msg |-> msg]

RECURSIVE DumpLoop(_, _, _, _, _, _)

\* lines 86-88 and 96-97, d the outcome of get_dumper
DumpOne(rparams, fmts, i, ps, ts, resolve, d) ==
    IF Raised(d) THEN LoopState(ps, ts, d.exc, d.msg)
    ELSE DumpLoop(rparams, fmts, i + 1,
                  Append(ps, Some(DumperDump(d.value, rparams[i + 1]))),
                  IF resolve THEN Append(ts, d.value.oid) ELSE ts, resolve)

\* lines 83-91 (resolve = TRUE) and 93-99 (resolve = FALSE), from index i
\* (0-based); ps and ts are self.params and self.types so far
DumpLoop(rparams, fmts, i, ps, ts, resolve) ==
    IF i >= Len(rparams) THEN LoopState(ps, ts, "", "")
    ELSE IF rparams[i + 1] = PyNone
    THEN DumpLoop(rparams, fmts, i + 1, Append(ps, None),
                  IF resolve THEN Append(ts, UNKNOWN_OID) ELSE ts, resolve)
    ELSE IF i + 1 > Len(fmts)
    THEN LoopState(ps, ts, "IndexError", "list index out of range")
    ELSE DumpOne(rparams, fmts, i, ps, ts, resolve,
                 get_dumper(rparams[i + 1], fmts[i + 1]))

\* the outcome of a method: the session after it, the exception raised ("" when
\* it returned), the list the reconciliation returned (None when it did not
\* return) and the names a missing-key error lists
Outcome(s, exc, msg, rparams, missing) ==
    [s |-> s, exc |-> exc, msg |-> msg, rparams |-> rparams, missing |-> missing]

\* lines 81-99, d the final state of the loop
Dumped(s, rparams, d) ==
    Outcome([s EXCEPT !.params = Some(d.params), !.types = Some(d.types)],
            d.exc, d.msg, Some(rparams), <<>>)

\* the test of line 81 taken as true at every dump
TypesUnsetAlways(s) == TRUE

\* line 81: self.types is None
TypesUnset(s) == IsNone(s.types)

\* lines 78-99, r the outcome of _validate_and_reorder_params
DumpParams(s, r) ==
    IF Raised(r) THEN Outcome(s, r.exc, r.msg, None, r.value)
    ELSE IF IsNone(s.formats)
    THEN Outcome([s EXCEPT !.params = Some(<<>>)], "AssertionError", "",
                 Some(r.value), <<>>)
    ELSE Dumped(s, r.value,
                DumpLoop(r.value, Get(s.formats), 0, <<>>,
                         IF IsNone(s.types) THEN <<>> ELSE Get(s.types),
                         TypesUnset(s)))

\* PostgresQuery.dump on session s
DumpOn(s, v) ==
    IF v.kind = "none"
    THEN Outcome([s EXCEPT !.params = None, !.types = None], "", "", None, <<>>)
    ELSE IF IsNone(s.parts)
    THEN Outcome(s, "AttributeError", "_parts", None, <<>>)
    ELSE DumpParams(s, _validate_and_reorder_params(Get(s.parts), v, s.order))

\* an outcome of dump with the cache beside it
WithCache(d, c) == [cache |-> c] @@ d

\* lines 57-59 assigned from the parsed query pq
Assign(s, pq) ==
    [s EXCEPT !.query = Bytes(pq.query), !.formats = Some(pq.formats),
              !.order = pq.order, !.parts = Some(pq.parts)]

\* lines 56-66 with vars, p the [result, cache] of _query2pg
ConvertParsed(s, p, v) ==
    IF Raised(p.result)
    THEN WithCache(Outcome(s, p.result.exc, p.result.msg, None, <<>>), p.cache)
    ELSE WithCache(DumpOn(Assign(s, p.result.value), v), p.cache)

\* PostgresQuery.convert on session s with cache c (q is the query after the
\* Composable has been rendered): the outcome and the cache
ConvertOn(s, c, q, v, encoding) ==
    IF v.kind # "none"
    THEN ConvertParsed(s, _query2pg(c, q, encoding), v)
    ELSE WithCache(DumpOn([s EXCEPT !.query = IF q.type = "str"
                                              THEN Bytes(Encode(q.text, encoding))
                                              ELSE q,
                                    !.formats = None, !.order = None], v), c)

\* the session object of the model
Self == Session(query, params, types, formats, order, parts)

\* what is observed of a call: the method, the query and encoding passed, the
\* kind of the parameters object, the exception raised ("" when it returned)
\* and the list the reconciliation returned
Call(op, q, encoding, v, r) ==
    [op |-> op, query |-> q, encoding |-> encoding, kind |-> v.kind,
     exc |-> r.exc, msg |-> r.msg, rparams |-> r.rparams, missing |-> r.missing]

NoCall ==
    [op |-> "init", query |-> Other, encoding |-> "", kind |-> "none",
     exc |-> "", msg |-> "", rparams |-> None, missing |-> <<>>]

\* the arguments of a call, the query given as the fragments it is written from
Input(fs, q, encoding, v) == [frags |-> fs, query |-> q, encoding |-> encoding, vars |-> v]

NoInput == Input(<<>>, Other, "", NoVars)

SetSession(s) ==
    /\ query' = s.query
    /\ params' = s.params
    /\ types' = s.types
    /\ formats' = s.formats
    /\ order' = s.order
    /\ parts' = s.parts

Init ==
    /\ query = NewSession.query
    /\ params = NewSession.params
    /\ types = NewSession.types
    /\ formats = NewSession.formats
    /\ order = NewSession.order
    /\ parts = NewSession.parts
    /\ peer = NewSession
    /\ cache = <<>>
    /\ last = NoCall
    /\ input = NoInput

\* a call of convert(query, vars) on the session, the transformer's encoding
\* being `encoding`
Convert(q, v, encoding) ==
    LET r == ConvertOn(Self, cache, q, v, encoding)
    IN  /\ SetSession(r.s)
        /\ cache' = r.cache
        /\ last' = Call("convert", q, encoding, v, r)
        /\ UNCHANGED <<peer, input>>

\* a call of dump(vars) on the session
Dump(v) ==
    LET r == DumpOn(Self, v)
    IN  /\ SetSession(r.s)
        /\ last' = Call("dump", Other, "", v, r)
        /\ UNCHANGED <<peer, cache, input>>

----------------------------------------------------------------------------
(* Inputs and specifications *)

RECURSIVE SeqsUpTo(_, _)
\* the sequences over S of length at most n
SeqsUpTo(S, n) ==
    IF n = 0 THEN {<<>>}
    ELSE LET shorter == SeqsUpTo(S, n - 1)
         IN  shorter \cup {Append(t, x) : t \in shorter, x \in S}

RECURSIVE Flatten(_)
Flatten(ss) == IF ss = <<>> THEN <<>> ELSE ss[1] \o Flatten(Tail(ss))

\* the mappings from a subset of the keys K to values in V
MapsOver(K, V) == UNION {[D -> V] : D \in SUBSET K}

\* the longest parameter sequence supplied
MaxParams == 2

Values == {PyNone, "i1", "s1", "obj"}

SessionQueries ==
    { Bytes(<<"%", "s", "%", "b">>),
      Bytes(<<"%", "(", "a", ")", "s">>),
      Bytes(<<"%", "s", "%", "(", "a", ")", "s">>) }

SessionVars ==
    {NoVars, OtherVars}
    \cup {SeqVars(t) : t \in SeqsUpTo(Values, MaxParams)}
    \cup {MapVars(m) : m \in MapsOver({<<"a">>}, Values)}

ConvertAny == \E q \in SessionQueries, v \in SessionVars : Convert(q, v, "utf8")

DumpAny == \E v \in SessionVars : Dump(v)

\* one session, driven by one caller, any sequence of convert and dump calls
Next == ConvertAny \/ DumpAny

Spec == Init /\ [][Next]_vars

----------------------------------------------------------------------------
(* One convert call on a new session: every query written with at most      *)
(* MaxFrags fragments, with an empty sequence and an empty mapping; every   *)
(* query written with at most MaxFrags well-formed tokens, with every       *)
(* parameters object; str queries with a character outside ASCII.           *)

\* the most fragments a query is written from
MaxFrags == 3

AnonTokens == { <<"%", "s">>, <<"%", "b">> }
NamedTokens == { <<"%", "(", "a", ")", "s">>, <<"%", "(", "a", ")", "b">>,
                 <<"%", "(", "b", ")", "s">> }
EscapeToken == <<"%", "%">>
PlainTokens == { <<"a">>, <<" ">>, <<")">>, <<"\n">> }
RawFrags == { <<"%">>, <<"%", "(">> }

Frags == AnonTokens \cup NamedTokens \cup {EscapeToken} \cup PlainTokens \cup RawFrags

\* str queries with a character outside ASCII, in a name and in the text
StrFrags == { <<"%", "(", "é", ")", "s">>, <<"%", "(", "é", ")", "b">>, <<"é">>, <<"%", "s">> }

Encodings == {"utf8", "latin1"}

ParseValues == {PyNone, "i1"}

ParseVars ==
    {NoVars, OtherVars}
    \cup {SeqVars(t) : t \in SeqsUpTo(ParseValues, MaxParams)}
    \cup {MapVars(m) : m \in MapsOver({<<"a">>, <<"b">>}, ParseValues)}

StrVars == {NoVars, SeqVars(<<>>), SeqVars(<<"i1">>), MapVars([n \in {<<"é">>} |-> "i1"])}

\* the tokens of the queries the parameters objects are reconciled with
ReconcileFrags ==
    AnonTokens \cup { <<"%", "(", "a", ")", "s">>, <<"%", "(", "b", ")", "s">> }
               \cup { EscapeToken, <<"a">> }

AnyQueryInputs ==
    {Input(fs, Bytes(Flatten(fs)), "utf8", v) :
        fs \in SeqsUpTo(Frags, MaxFrags), v \in {SeqVars(<<>>), MapVars(<<>>)}}

AnyVarsInputs ==
    {Input(fs, Bytes(Flatten(fs)), "utf8", v) :
        fs \in SeqsUpTo(ReconcileFrags, MaxFrags), v \in ParseVars}

StrInputs ==
    {Input(fs, Str(Flatten(fs)), e, v) :
        fs \in SeqsUpTo(StrFrags, 2), e \in Encodings, v \in StrVars}
    \cup {Input(<<>>, Other, "utf8", v) : v \in StrVars}

InitParse ==
    /\ query = NewSession.query
    /\ params = NewSession.params
    /\ types = NewSession.types
    /\ formats = NewSession.formats
    /\ order = NewSession.order
    /\ parts = NewSession.parts
    /\ peer = NewSession
    /\ cache = <<>>
    /\ last = NoCall
    /\ \/ input \in AnyQueryInputs
       \/ input \in AnyVarsInputs
       \/ input \in StrInputs

\* the call convert(input.query, input.vars) on the new session
ConvertInput ==
    /\ last.op = "init"
    /\ Convert(input.query, input.vars, input.encoding)

SpecParse == InitParse /\ [][ConvertInput]_vars

----------------------------------------------------------------------------
(* Two sessions and one cache: the caller drives one PostgresQuery object   *)
(* at a time and may turn to the other one between two calls.               *)

SharedQueries ==
    { Bytes(<<"%", "s">>), Bytes(<<"a">>), Bytes(<<"%", "(", "a", ")", "b">>) }

SharedVars ==
    { NoVars, SeqVars(<<>>), SeqVars(<<"i1">>), MapVars([n \in {<<"a">>} |-> "s1"]) }

ConvertShared == \E q \in SharedQueries, v \in SharedVars : Convert(q, v, "utf8")

DumpShared == \E v \in SharedVars : Dump(v)

\* the caller turns to the other session; the cache is the module's
Switch ==
    /\ SetSession(peer)
    /\ peer' = Self
    /\ last' = [NoCall EXCEPT !.op = "switch"]
    /\ UNCHANGED <<cache, input>>

NextShared == ConvertShared \/ DumpShared \/ Switch

SpecShared == Init /\ [][NextShared]_vars

----------------------------------------------------------------------------
(* Many queries through one cache: the queries "1", "2", ... are converted  *)
(* one after the other, and the first one again once the cache is full.     *)

\* the number of distinct queries converted
MaxKeys == 130

NumberedQuery(n) == Bytes(Decimal(n))

RECURSIVE Number(_, _)
\* the number a query "1", "2", ... is the decimal text of, n the value of
\* the digits read so far
Number(text, n) ==
    IF text = <<>> THEN n
    ELSE Number(Tail(text), 10 * n + CHOOSE d \in 0..9 : Digit(d) = text[1])

\* the number of the next new query: one more than the latest stored
NextNumber ==
    IF cache = <<>> THEN 1
    ELSE 1 + CHOOSE n \in {Number(cache[k].key[1].text, 0) : k \in 1..Len(cache)} :
                 \A k \in 1..Len(cache) : Number(cache[k].key[1].text, 0) <= n

ConvertNext ==
    /\ NextNumber <= MaxKeys
    /\ Convert(NumberedQuery(NextNumber), SeqVars(<<>>), "utf8")

\* the first query again, once the cache is full
ConvertFirst ==
    /\ Len(cache) >= CacheMaxSize
    /\ Convert(NumberedQuery(1), SeqVars(<<>>), "utf8")

NextCache == ConvertNext \/ ConvertFirst

SpecCache == Init /\ [][NextCache]_vars

----------------------------------------------------------------------------
(* Properties *)

\* the latest call was op, returned normally and was given parameters
Succeeded(op) == last.op = op /\ last.exc = "" /\ last.kind # "none"

RECURSIVE DigitRun(_, _)
\* the longest run of digits of text from position pos
DigitRun(text, pos) ==
    IF pos <= Len(text) /\ text[pos] \in {"0", "1", "2", "3", "4", "5", "6", "7", "8", "9"}
    THEN <<text[pos]>> \o DigitRun(text, pos + 1)
    ELSE <<>>

\* the distinct destination placeholders $n of a rewritten query
DestPlaceholders(text) ==
    {DigitRun(text, p + 1) : p \in {k \in 1..Len(text) : text[k] = "$"}} \ {<<>>}

\* the type id of the serializer of a parameter in a format, 705 for None
ResolvedOid(param, format) ==
    IF param = PyNone THEN UNKNOWN_OID ELSE get_dumper(param, format).value.oid

\* C1: after every successful convert(query, params) with non-null params,
\* len(params) = len(formats) = the number of distinct destination
\* placeholders of the rewritten query.
C1_Aligned ==
    Succeeded("convert") =>
        /\ Len(Get(params)) = Len(Get(formats))
        /\ Len(Get(formats)) = Cardinality(DestPlaceholders(query.text))

\* C2: after every successful convert(query, params) with non-null params,
\* whatever calls preceded it, types has the length of params and types[i] is
\* the type id of the serializer of the i-th parameter of this call in
\* formats[i], 705 for None.
C2_Fresh ==
    Succeeded("convert") =>
        /\ ~IsNone(types)
        /\ Len(Get(types)) = Len(Get(params))
        /\ \A i \in 1..Len(Get(last.rparams)) :
              /\ i <= Len(Get(types))
              /\ i <= Len(Get(formats))
              /\ Get(types)[i] = ResolvedOid(Get(last.rparams)[i], Get(formats)[i])

\* C3: whenever a dump with non-null params succeeds (called directly or by
\* convert), every position whose parameter is None has params[i] None and
\* types[i] 705, whatever earlier calls dumped there.
C3_Null ==
    (Succeeded("dump") \/ Succeeded("convert")) =>
        \A i \in 1..Len(Get(last.rparams)) :
            Get(last.rparams)[i] = PyNone =>
                /\ Get(params)[i] = None
                /\ i <= Len(Get(types))
                /\ Get(types)[i] = UNKNOWN_OID

----------------------------------------------------------------------------
(* Properties of one convert call on a new session (SpecParse) *)

IsAnonToken(f) == f \in AnonTokens

IsNamedToken(f) ==
    /\ Len(f) >= 5
    /\ f[1] = "%" /\ f[2] = "(" /\ f[Len(f) - 1] = ")" /\ f[Len(f)] \in {"s", "b"}

IsPlaceholderToken(f) == IsAnonToken(f) \/ IsNamedToken(f)

\* the query is written from well-formed tokens only: placeholders, "%%" and
\* single bytes other than "%"
Tokens(fs) == \A k \in 1..Len(fs) : fs[k] \notin RawFrags

TokenName(f) == SubSeq(f, 3, Len(f) - 2)
TokenFormat(f) == IF f[Len(f)] = "b" THEN "BINARY" ELSE "TEXT"

RECURSIVE PlaceholderTokens(_)
\* the placeholder tokens of a query, left to right
PlaceholderTokens(fs) ==
    IF fs = <<>> THEN <<>>
    ELSE (IF IsPlaceholderToken(fs[1]) THEN <<fs[1]>> ELSE <<>>)
         \o PlaceholderTokens(Tail(fs))

\* convert was called with parameters
Called == last.op = "convert" /\ input.vars.kind # "none"

\* convert was called with parameters and _query2pg returned
Parsed == Called /\ ~IsNone(parts)

\* the non-terminal parts of the session
Holders == SubSeq(Get(parts), 1, Len(Get(parts)) - 1)

\* the position of the first part named n
FirstPart(n) == CHOOSE j \in 1..Len(Holders) :
                    /\ Holders[j].item.s = n
                    /\ \A i \in 1..(j - 1) : Holders[i].item.s # n

\* the position of name n in name_order
OrderIndex(n) == CHOOSE k \in 1..Len(Get(order)) : Get(order)[k] = n

RECURSIVE NamedText(_)
\* the parts from the j-th on, each placeholder written as the $k of its name
NamedText(j) ==
    IF j > Len(Holders) THEN Get(parts)[Len(Get(parts))].pre
    ELSE Holders[j].pre \o <<"$">> \o Decimal(OrderIndex(Holders[j].item.s))
         \o NamedText(j + 1)

\* C4: in a parsed query whose placeholders are all named, name_order lists
\* each distinct name once, in first-occurrence order; the k-th name is
\* written $k at every occurrence; formats has one entry per name, the format
\* of that name; the parts are the placeholders of the query as written.
C4_NamedNumbering ==
    (Parsed /\ Len(Get(parts)) > 1 /\ Get(parts)[1].item.type = "str") =>
        /\ ~IsNone(order)
        /\ \A k1, k2 \in 1..Len(Get(order)) :
              k1 # k2 => Get(order)[k1] # Get(order)[k2]
        /\ {Get(order)[k] : k \in 1..Len(Get(order))}
              = {Holders[j].item.s : j \in 1..Len(Holders)}
        /\ \A k1, k2 \in 1..Len(Get(order)) :
              k1 < k2 => FirstPart(Get(order)[k1]) < FirstPart(Get(order)[k2])
        /\ Len(Get(formats)) = Len(Get(order))
        /\ \A k \in 1..Len(Get(order)) :
              Get(formats)[k] = Holders[FirstPart(Get(order)[k])].format
        /\ query.text = NamedText(1)
        /\ (Tokens(input.frags) /\ input.query.type = "bytes") =>
              /\ Len(Holders) = Len(PlaceholderTokens(input.frags))
              /\ \A j \in 1..Len(Holders) :
                    /\ Holders[j].item.s = TokenName(PlaceholderTokens(input.frags)[j])
                    /\ Holders[j].format = TokenFormat(PlaceholderTokens(input.frags)[j])

\* a name repeated after a second name: "%(a)s%(b)s%(a)s" became "$1$2$1"
C4_Witness ==
    /\ Parsed
    /\ input.frags = << <<"%", "(", "a", ")", "s">>, <<"%", "(", "b", ")", "s">>,
                        <<"%", "(", "a", ")", "s">> >>
    /\ query.text = <<"$", "1", "$", "2", "$", "1">>
    /\ order = Some(<< <<"a">>, <<"b">> >>)

\* the tokens of a query are anonymous placeholders, "%%" and plain bytes
AnonQuery(fs) ==
    /\ Tokens(fs)
    /\ \A k \in 1..Len(fs) : ~IsNamedToken(fs[k])

RECURSIVE AnonText(_, _)
\* the query rewritten token by token, n placeholders written so far
AnonText(fs, n) ==
    IF fs = <<>> THEN <<>>
    ELSE IF IsAnonToken(fs[1])
    THEN <<"$">> \o Decimal(n + 1) \o AnonText(Tail(fs), n + 1)
    ELSE (IF fs[1] = EscapeToken THEN <<"%">> ELSE fs[1]) \o AnonText(Tail(fs), n)

RECURSIVE LiteralBefore(_, _)
\* the literal text before the n-th placeholder token (after the one before
\* it), or after the last one when n is 1 more than their number
LiteralBefore(fs, n) ==
    IF fs = <<>> THEN <<>>
    ELSE IF IsAnonToken(fs[1])
    THEN IF n = 1 THEN <<>> ELSE LiteralBefore(Tail(fs), n - 1)
    ELSE (IF n = 1 THEN (IF fs[1] = EscapeToken THEN <<"%">> ELSE fs[1]) ELSE <<>>)
         \o LiteralBefore(Tail(fs), n)

\* C5: in a query whose placeholders are all anonymous the k-th placeholder
\* is written $k and formats[k] is its format, without deduplication; every
\* "%%" becomes one "%" of the literal text around it and takes no number.
C5_AnonNumbering ==
    (Called /\ input.query.type = "bytes" /\ AnonQuery(input.frags)) =>
        /\ ~IsNone(parts)
        /\ IsNone(order)
        /\ query.text = AnonText(input.frags, 0)
        /\ Len(Get(formats)) = Len(PlaceholderTokens(input.frags))
        /\ Len(Get(parts)) = Len(PlaceholderTokens(input.frags)) + 1
        /\ \A k \in 1..Len(Get(formats)) :
              /\ Get(formats)[k] = TokenFormat(PlaceholderTokens(input.frags)[k])
              /\ Get(parts)[k].item = IntItem(k - 1)
              /\ Get(parts)[k].format = Get(formats)[k]
        /\ \A k \in 1..Len(Get(parts)) :
              Get(parts)[k].pre = LiteralBefore(input.frags, k)

\* "%s%%%b" became "$1%$2"
C5_Witness ==
    /\ Parsed
    /\ input.frags = << <<"%", "s">>, EscapeToken, <<"%", "b">> >>
    /\ query.text = <<"$", "1", "%", "$", "2">>
    /\ formats = Some(<<"TEXT", "BINARY">>)

\* the query has an anonymous and a named placeholder
MixedQuery(fs) ==
    /\ Tokens(fs)
    /\ \E k \in 1..Len(fs) : IsAnonToken(fs[k])
    /\ \E k \in 1..Len(fs) : IsNamedToken(fs[k])

\* C6 as stated: convert of a query with an anonymous and a named placeholder
\* raises ProgrammingError whatever the parameters are.
C6_AlwaysRejected ==
    (last.op = "convert" /\ MixedQuery(input.frags)) => last.exc = "ProgrammingError"

\* C6 amended: with parameters (vars not None) convert of such a query raises
\* ProgrammingError and leaves the session as it was; without, the query is
\* not parsed and convert returns.  No parsed query has parts of both kinds.
C6_RejectedWithParams ==
    /\ (last.op = "convert" /\ MixedQuery(input.frags)) =>
          IF input.vars.kind # "none"
          THEN /\ last.exc = "ProgrammingError"
               /\ last.msg = "positional and named placeholders cannot be mixed"
               /\ Self = NewSession
          ELSE /\ last.exc = ""
               /\ query.text = Encode(input.query.text, input.encoding)
               /\ IsNone(parts)
    /\ ~IsNone(parts) =>
          \A j \in 1..Len(Holders) : Holders[j].item.type = Holders[1].item.type

\* "%s%(a)s" was converted with a mapping and rejected
C6_Witness ==
    /\ last.op = "convert"
    /\ input.frags = << <<"%", "s">>, <<"%", "(", "a", ")", "s">> >>
    /\ input.vars.kind = "map"
    /\ last.exc = "ProgrammingError"

\* a name of the query is written with both formats
TwoFormats(fs) ==
    /\ Tokens(fs)
    /\ \E k1, k2 \in 1..Len(fs) :
          /\ IsNamedToken(fs[k1]) /\ IsNamedToken(fs[k2])
          /\ TokenName(fs[k1]) = TokenName(fs[k2])
          /\ TokenFormat(fs[k1]) # TokenFormat(fs[k2])

\* C7: parsing a query where a name occurs with two formats raises
\* ProgrammingError; in every parsed named query each occurrence of a name
\* has the format recorded for the name in formats.
C7_OneFormatPerName ==
    /\ (Called /\ TwoFormats(input.frags)) =>
          /\ last.exc = "ProgrammingError"
          /\ IsNone(parts)
    /\ (Parsed /\ ~IsNone(order)) =>
          \A j \in 1..Len(Holders) :
              /\ \E k \in 1..Len(Get(order)) : Get(order)[k] = Holders[j].item.s
              /\ Holders[j].format = Get(formats)[OrderIndex(Holders[j].item.s)]

\* "%(a)s %(a)b" was rejected for the second format of a
C7_Witness ==
    /\ Called
    /\ input.frags = << <<"%", "(", "a", ")", "s">>, <<" ">>, <<"%", "(", "a", ")", "b">> >>
    /\ last.exc = "ProgrammingError"
    /\ last.msg = "placeholder cannot have different formats"

RECURSIVE StrayPercent(_, _)
\* from position pos on, some "%" of the text is followed neither by "%", "s"
\* or "b" nor by a complete "(name)s" or "(name)b"
StrayPercent(text, pos) ==
    IF pos > Len(text) THEN FALSE
    ELSE IF text[pos] # "%" THEN StrayPercent(text, pos + 1)
    ELSE IF pos + 1 <= Len(text) /\ text[pos + 1] \in {"%", "s", "b"}
    THEN StrayPercent(text, pos + 2)
    ELSE IF /\ pos + 1 <= Len(text) /\ text[pos + 1] = "("
            /\ IndexOf(text, ")", pos + 2) > pos + 2
            /\ IndexOf(text, ")", pos + 2) + 1 <= Len(text)
            /\ text[IndexOf(text, ")", pos + 2) + 1] \in {"s", "b"}
    THEN StrayPercent(text, IndexOf(text, ")", pos + 2) + 2)
    ELSE TRUE

\* C8: parsing raises ProgrammingError whenever a "%" of the query is not
\* followed by "%", "s", "b" or a complete "(name)s" / "(name)b", a bare "%"
\* at the end of the query included.
C8_SyntaxError ==
    (Called /\ input.query.type = "bytes" /\ StrayPercent(input.query.text, 1)) =>
        last.exc = "ProgrammingError"

\* the count-mismatch error of the reconciliation
CountError == last.exc = "ProgrammingError" /\ last.msg = "placeholders count mismatch"

\* C9: with a sequence of parameters the reconciliation raises the
\* count-mismatch error exactly when the length of the sequence differs from
\* the number of non-terminal parts; with equal lengths and an anonymous query
\* the sequence is returned as it is.
C9_Count ==
    (Parsed /\ input.vars.kind = "seq") =>
        /\ CountError <=> Len(input.vars.seq) # Len(Holders)
        /\ (Len(input.vars.seq) = Len(Holders) /\ Get(parts)[1].item.type = "int") =>
              /\ last.exc = ""
              /\ last.rparams = Some(input.vars.seq)

\* two parameters for two anonymous placeholders, returned in their order
C9_Witness ==
    /\ Parsed
    /\ Len(Holders) = 2
    /\ input.vars = SeqVars(<<"i1", PyNone>>)
    /\ last.rparams = Some(<<"i1", PyNone>>)

\* a non-empty sequence for named placeholders, or a non-empty mapping for
\* anonymous placeholders
WrongKind ==
    /\ Parsed
    /\ Len(Holders) > 0
    /\ \/ input.vars.kind = "seq" /\ input.vars.seq # <<>>
             /\ Holders[1].item.type = "str"
       \/ input.vars.kind = "map" /\ DOMAIN input.vars.map # {}
             /\ Holders[1].item.type = "int"

\* C10 as stated: the wrong kind of non-empty collection always raises
\* TypeError, whatever the length of the sequence or the keys of the mapping.
C10_KindMismatch == WrongKind => last.exc = "TypeError"

\* C10 amended: a non-empty sequence for named placeholders raises TypeError
\* when its length is the number of non-terminal parts and the count-mismatch
\* ProgrammingError otherwise; a non-empty mapping for anonymous placeholders
\* raises TypeError whatever its keys.
C10_KindMismatchSameCount ==
    WrongKind =>
        IF input.vars.kind = "seq" /\ Len(input.vars.seq) # Len(Holders)
        THEN CountError
        ELSE last.exc = "TypeError"

\* one parameter in a list for "%(a)s"
C10_Witness ==
    /\ WrongKind
    /\ input.frags = << <<"%", "(", "a", ")", "s">> >>
    /\ input.vars = SeqVars(<<"i1">>)
    /\ last.exc = "TypeError"

\* the names of name_order that are not keys of the mapping supplied
MissingNames == {Get(order)[k] : k \in 1..Len(Get(order))} \ DOMAIN input.vars.map

\* C11: a mapping supplied to a parsed query with named placeholders is
\* reconciled to the values of the names of name_order, in that order, keys
\* outside name_order being ignored; when names of name_order are not keys
\* of the mapping the call raises one ProgrammingError that lists the
\* missing names, all of them and only them, in ascending order.
C11_Mapping ==
    (Parsed /\ input.vars.kind = "map" /\ Len(Holders) > 0
            /\ Holders[1].item.type = "str") =>
        IF MissingNames = {}
        THEN /\ last.exc = ""
             /\ last.rparams = Some([k \in 1..Len(Get(order)) |->
                                        input.vars.map[Get(order)[k]]])
        ELSE /\ last.exc = "ProgrammingError"
             /\ last.msg = "query parameter missing"
             /\ IsNone(last.rparams)
             /\ {last.missing[k] : k \in 1..Len(last.missing)} = MissingNames
             /\ \A k \in 1..(Len(last.missing) - 1) :
                   NameLess(last.missing[k], last.missing[k + 1])

\* "%(b)s%(a)s" with an empty mapping: the error lists a before b
C11_Witness ==
    /\ Parsed
    /\ order = Some(<< <<"b">>, <<"a">> >>)
    /\ input.vars = MapVars(<<>>)
    /\ last.exc = "ProgrammingError"
    /\ last.missing = << <<"a">>, <<"b">> >>

\* the errors _validate_and_reorder_params raises
ReconcileErrors ==
    { "placeholders count mismatch",
      "named placeholders require a mapping of parameters",
      "positional placeholders (%s) require a sequence of parameters",
      "query parameter missing",
      "query parameters should be a sequence or a mapping" }

\* the call that ended in this state failed in the reconciliation
ReconcileFailed == last.exc # "" /\ last.msg \in ReconcileErrors

\* C12: a convert or dump call that fails in the reconciliation of the
\* parameters leaves query, formats, name order, parts, params and types as
\* they were before the call.
C12_FailedReconcile ==
    [][ReconcileFailed' => UNCHANGED <<query, params, types, formats, order, parts>>]_vars

\* C13: after convert(query, None) the session's query is the query passed,
\* byte for byte, params and types are None, and formats, name order and
\* parts are all cleared: nothing of an earlier query is left for a later
\* dump to validate against.
C13_NoSubstitution ==
    (last.op = "convert" /\ last.kind = "none") =>
        /\ last.exc = ""
        /\ query = last.query
        /\ IsNone(params) /\ IsNone(types)
        /\ IsNone(formats) /\ IsNone(order)
        /\ IsNone(parts)

\* the query is written with "%%" and plain bytes only, "%%" at least once
EscapedOnly(fs) ==
    /\ Tokens(fs)
    /\ \A k \in 1..Len(fs) : ~IsPlaceholderToken(fs[k])
    /\ \E k \in 1..Len(fs) : fs[k] = EscapeToken

\* no parameters: None, an empty sequence or an empty mapping
NoParams == input.vars \in {NoVars, SeqVars(<<>>), MapVars(<<>>)}

\* C14 as stated: convert of a query with "%%" and no placeholder, with params
\* None or an empty collection, gives the query with one "%" for each "%%".
C14_Unescaped ==
    (last.op = "convert" /\ input.query.type = "bytes"
        /\ EscapedOnly(input.frags) /\ NoParams) =>
        /\ last.exc = ""
        /\ query.text = AnonText(input.frags, 0)

\* C14 amended: with an empty sequence or an empty mapping the query is
\* parsed, every "%%" becomes one "%" and there is no placeholder (one part,
\* no format, no parameter); with params None the query is passed through
\* with every "%%" as it was written.
C14_UnescapedWhenParsed ==
    (last.op = "convert" /\ input.query.type = "bytes"
        /\ EscapedOnly(input.frags) /\ NoParams) =>
        /\ last.exc = ""
        /\ IF input.vars.kind = "none"
           THEN /\ query.text = Flatten(input.frags)
                /\ IsNone(formats) /\ IsNone(params) /\ IsNone(types)
           ELSE /\ query.text = AnonText(input.frags, 0)
                /\ \A k \in 1..Len(query.text) : query.text[k] # "$"
                /\ Len(Get(parts)) = 1
                /\ Get(parts)[1].pre = query.text
                /\ formats = Some(<<>>)
                /\ params = Some(<<>>)

\* "a%%a" converted with an empty sequence became "a%a"
C14_Witness ==
    /\ last.op = "convert"
    /\ input.frags = << <<"a">>, EscapeToken, <<"a">> >>
    /\ input.vars = SeqVars(<<>>)
    /\ query.text = <<"a", "%", "a">>

\* the query of the latest call has no "%" byte
PlainQuery ==
    /\ last.query.type = "bytes"
    /\ \A k \in 1..Len(last.query.text) : last.query.text[k] # "%"

\* C15: after a successful convert of a query without "%" with non-null
\* params, the rewritten query is the input, the tokenizer's parts are one
\* terminal part whose pre is the whole input, and params and types have the
\* length of the parameters supplied (for a sequence, which the
\* reconciliation returns as it is, the length of the reconciled list).
C15_PlainQuery ==
    (Succeeded("convert") /\ PlainQuery) =>
        /\ query = last.query
        /\ Len(Get(parts)) = 1
        /\ Get(parts)[1].pre = last.query.text
        /\ last.kind = "seq" =>
              /\ Len(Get(params)) = Len(Get(last.rparams))
              /\ Len(Get(types)) = Len(Get(last.rparams))

C17_AppendOnly ==
    [][\A k \in 1..Len(cache) :
          /\ CacheIndex(cache', cache[k].key) # 0
          /\ cache'[CacheIndex(cache', cache[k].key)].value = cache[k].value]_vars

\* the session holds the query, formats, name order and parts of the parse u
HoldsParse(u) ==
    /\ query = Bytes(u.value.query)
    /\ formats = Some(u.value.formats)
    /\ order = u.value.order
    /\ parts = Some(u.value.parts)

\* entry en of the cache holds the parse u of its key
EntryIs(en, u) == ~Raised(u) /\ en.value = u.value

ParseErrors ==
    { "incomplete placeholder",
      "incomplete placeholder: '%'",
      "only '%s' and '%b' placeholders allowed",
      "positional and named placeholders cannot be mixed",
      "placeholder cannot have different formats",
      "the query should be str or bytes",
      "invalid byte" }

\* the latest call was a convert that failed in the parse of the query
ParseFailed ==
    /\ last.op = "convert" /\ last.kind # "none"
    /\ last.exc # "" /\ last.msg \in ParseErrors

\* the parse of the query of the latest call raises
ParseRaises == Raised(Query2pgUncached(last.query, last.encoding))

\* the latest call raised what the parse of its query raises
RaisedAsParse ==
    /\ last.exc = Query2pgUncached(last.query, last.encoding).exc
    /\ last.msg = Query2pgUncached(last.query, last.encoding).msg

\* the cache has no entry for the query of the latest call
NotCached == CacheIndex(cache, CacheKey(last.query, last.encoding)) = 0

\* C19: a convert whose parse raises changes nothing: the cache is as it was,
\* with no entry for the key, so that every parse of the key raises the same
\* error again, and query, formats, name order, parts, params and types of
\* the session are as they were.
C19_FailedParse ==
    /\ [](/\ (last.op = "convert" /\ last.kind # "none" /\ ParseRaises) =>
                ParseFailed /\ RaisedAsParse /\ NotCached
          /\ ParseFailed => ParseRaises)
    /\ [][ParseFailed' =>
             UNCHANGED <<query, params, types, formats, order, parts, cache>>]_vars

\* "%s%(a)s" was rejected on a session that holds the results of "%s%b"
C19_Witness ==
    /\ ParseFailed
    /\ last.msg = "positional and named placeholders cannot be mixed"
    /\ query = Bytes(<<"$", "1", "$", "2">>)
    /\ params = Some(<<Some(<<"i1", "TEXT">>), None>>)
    /\ Len(cache) = 1

\* the latest call was a dump that raised after the reconciliation returned
DumpFailedLate == last.op = "dump" /\ last.exc # "" /\ ~IsNone(last.rparams)

\* C20: a dump that raises after the reconciliation succeeded (a serializer
\* is not found or fails, or the formats assertion fails) leaves params and
\* types as they were before the call.
C20_AllOrNothing ==
    [][DumpFailedLate' => UNCHANGED <<params, types>>]_vars

====
